---- MODULE Spec2Model ----
(***************************************************************************)
(* The asynchronous job core of the question-answering backend:            *)
(*   - the API function (app.py): start_job and check_status,              *)
(*   - the background processor (processor.py): lambda_handler,            *)
(*   - the jobs table (DynamoDB: put_item, update_item, get_item, TTL),    *)
(*   - the asynchronous trigger (Lambda invoke, InvocationType='Event').   *)
(***************************************************************************)
EXTENDS Integers, Sequences, FiniteSets, TLC

\* ------------------------------------------------------------------ bounds
MaxJobs == 2          \* job ids uuid4 may produce
MaxDeliveries == 2    \* deliveries of one asynchronous event (first try + retries)
MaxTime == 25         \* the clock stops here (hours)

\* app.py:68  timedelta(hours=24)
TtlHours == 24
\* granularity of the clock: one step takes it just past a time-to-live
TickHours == TtlHours + 1

JobIds == 1..MaxJobs

\* ------------------------------------------------------------ JSON values
\* A JSON object / DynamoDB item is a function from attribute names to values.
EmptyObj == [x \in {} |-> x]

Has(obj, key) == key \in DOMAIN obj

\* dict.get(key, default)
Get(obj, key, default) == IF key \in DOMAIN obj THEN obj[key] ELSE default

\* datetime.isoformat(): a timestamp rendered as text
IsoFormat(t) == "T+" \o ToString(t) \o "h"

QuestionTexts == {"q1"}
ContextObjs == {EmptyObj, "k" :> "v"}

\* The bodies a POST /query may carry (event['body']).
\*   absent : the event has no 'body' key        (event.get('body', '{}'))
\*   object : text of a JSON object
ObjectBodies ==
    {EmptyObj}
    \cup {("question" :> q) : q \in QuestionTexts \cup {""}}
    \cup {("context" :> c) : c \in ContextObjs \ {EmptyObj}}
    \cup {("question" :> q) @@ ("context" :> c) :
              q \in QuestionTexts \cup {""}, c \in ContextObjs \ {EmptyObj}}

Bodies == {[kind |-> "absent", obj |-> EmptyObj]}
          \cup {[kind |-> "object", obj |-> o] : o \in ObjectBodies}

\* The bodies start_job cannot read as a JSON object:
\*   null      : event['body'] is None            json.loads raises TypeError
\*   notjson   : text that is no JSON              json.loads raises JSONDecodeError
\*   nonobject : JSON that is no object (a list)   body.get raises AttributeError
MalformedBodies == {[kind |-> k, obj |-> EmptyObj] : k \in {"null", "notjson", "nonobject"}}

\* str(e) of the exception start_job raises on a malformed body (app.py:60-61)
ParseError(body) ==
    CASE body.kind = "null" -> "TypeError"
      [] body.kind = "notjson" -> "JSONDecodeError"
      [] body.kind = "nonobject" -> "AttributeError"

\* json.loads(event.get('body', '{}'))
ParseBody(body) == IF body.kind = "absent" THEN EmptyObj ELSE body.obj

\* Python truthiness of the question string: `not question`
Falsy_OnlyNone(q) == FALSE

Falsy(q) == q = ""

\* --------------------------------------------------------------- responses
\* A response sent as plain text.
cors_response_PlainText(status_code, body) ==
    [statusCode |-> status_code,
     headers |-> [allowOrigin |-> "*",
                  allowHeaders |-> "Content-Type",
                  allowMethods |-> "GET,POST,OPTIONS",
                  contentType |-> "text/plain"],
     body |-> body]

\* cors_response(status_code, body)
cors_response(status_code, body) ==
    [statusCode |-> status_code,
     headers |-> [allowOrigin |-> "*",
                  allowHeaders |-> "Content-Type",
                  allowMethods |-> "GET,POST,OPTIONS",
                  contentType |-> "application/json"],
     body |-> body]

NoResponse == [statusCode |-> 0, headers |-> EmptyObj, body |-> EmptyObj]

\* str(e) of the exceptions the collaborators raise
StoreError == "StoreError"
InvokeError == "InvokeError"

\* ------------------------------------------------------------------- state
VARIABLES
    table,      \* the jobs table: job_id -> item (only the ids that have an item)
    queue,      \* asynchronous processor events: job_id -> [payload, left]
    sj,         \* start_job calls: job_id -> [pc, question, context]
    apiReq,     \* the request the API function answered last
    apiResp,    \* its response
    now,        \* the clock (hours)
    plEvent,    \* the event a planner function is invoked with
    plResp      \* the planner function that ran, what the service gave it, its response

vars == <<table, queue, sj, apiReq, apiResp, now, plEvent, plResp>>

\* -------------------------------------------------------------- the store
\* jobs_table.put_item(Item=item): unconditional, replaces any item of the key
PutItem(tbl, item) == (item["job_id"] :> item) @@ tbl

\* An update that sets the attributes on every item of the table.
UpdateItem_AllItems(tbl, job_id, sets) ==
    LET old(k) == IF k \in DOMAIN tbl THEN tbl[k] ELSE ("job_id" :> k)
    IN  [k \in DOMAIN tbl \cup {job_id} |-> sets @@ old(k)]

\* jobs_table.update_item(Key, UpdateExpression='SET ...'): unconditional;
\* sets the named attributes, keeps the others, and creates the item (key plus
\* the set attributes) when the key has none.
UpdateItem(tbl, job_id, sets) ==
    LET old == IF job_id \in DOMAIN tbl THEN tbl[job_id] ELSE ("job_id" :> job_id)
    IN  (job_id :> (sets @@ old)) @@ tbl

\* DynamoDB TTL removes an item whose ttl attribute lies in the past.
Expired(item, t) == Has(item, "ttl") /\ item["ttl"] < t

DeleteItem(tbl, job_id) == [k \in DOMAIN tbl \ {job_id} |-> tbl[k]]

\* ------------------------------------------------------------------- Init
\* No planner function has run.
NoPlannerResp == [handler |-> "none", outcomes |-> <<>>, response |-> EmptyObj]

\* The requests of the API function: POST /query and GET /status/{job_id}.
NoBody == [kind |-> "absent", obj |-> EmptyObj]
PostQuery(body) == [httpMethod |-> "POST", path |-> <<"query">>, body |-> body]
GetStatus(job_id) == [httpMethod |-> "GET", path |-> <<"status", job_id>>, body |-> NoBody]
NoRequest == [httpMethod |-> "", path |-> <<>>, body |-> NoBody]

Init ==
    /\ table = EmptyObj
    /\ queue = EmptyObj
    /\ sj = EmptyObj
    /\ apiReq = NoRequest
    /\ apiResp = NoResponse
    /\ now = 0
    /\ plEvent = EmptyObj
    /\ plResp = NoPlannerResp

\* ------------------------------------------------------ app.py: start_job
\* The item start_job stores (app.py:71-78).
NewJobItem_Pending(job_id, question, context_data, t) ==
    [job_id |-> job_id,
     status |-> "pending",
     question |-> question,
     context |-> context_data,
     created_at |-> IsoFormat(t),
     ttl |-> t + TtlHours]

NewJobItem(job_id, question, context_data, t) ==
    [job_id |-> job_id,
     status |-> "processing",
     question |-> question,
     context |-> context_data,
     created_at |-> IsoFormat(t),
     ttl |-> t + TtlHours]

\* A 202 body that tells whether the processor was triggered.
AcceptedBody_DispatchStatus(job_id) ==
    [job_id |-> job_id,
     status |-> IF job_id \in DOMAIN sj /\ sj[job_id].pc = "invoke_failed"
                  THEN "failed" ELSE "processing",
     message |-> "Your request is being processed",
     check_status_url |-> "/status/" \o ToString(job_id)]

\* The body of the 202 response (app.py:102-107).
AcceptedBody(job_id) ==
    [job_id |-> job_id,
     status |-> "processing",
     message |-> "Your request is being processed",
     check_status_url |-> "/status/" \o ToString(job_id)]

\* The Payload of the asynchronous invocation (app.py:85-89).
InvokePayload(job_id, question, context_data) ==
    [job_id |-> job_id, question |-> question, context |-> context_data]

\* The attributes the except branch of start_job sets (app.py:95-100).
DispatchFailedSets_NoStatus(err) == [error |-> err]

DispatchFailedSets(err) == [status |-> "failed", error |-> err]

\* start_job, question missing or empty: 400, nothing else (app.py:59-65).
StartJobReject(body) ==
    /\ Falsy(Get(ParseBody(body), "question", ""))
    /\ apiReq' = PostQuery(body)
    /\ apiResp' = cors_response(400, [error |-> "Question is required"])
    /\ UNCHANGED <<table, queue, sj, now, plEvent, plResp>>

\* start_job on a malformed body (app.py:60-61): json.loads or body.get raises,
\* nothing is stored or invoked, and lambda_handler answers 500 (app.py:53-57).
StartJobMalformed(body) ==
    /\ body \in MalformedBodies
    /\ apiReq' = PostQuery(body)
    /\ apiResp' = cors_response(500, [error |-> ParseError(body)])
    /\ UNCHANGED <<table, queue, sj, now, plEvent, plResp>>

\* start_job going on to the trigger after a put_item that raised.
StartJobPut_SwallowError(body, job_id, putOk) ==
    LET parsed == ParseBody(body)
        question == Get(parsed, "question", "")
        context_data == Get(parsed, "context", EmptyObj)
    IN  /\ ~Falsy(question)
        /\ job_id \notin DOMAIN sj
        /\ table' = IF putOk
                       THEN PutItem(table, NewJobItem(job_id, question, context_data, now))
                       ELSE table
        /\ sj' = (job_id :> [pc |-> "stored", body |-> body,
                             question |-> question, context |-> context_data]) @@ sj
        /\ UNCHANGED <<queue, apiReq, apiResp, now, plEvent, plResp>>

\* start_job up to the put_item (app.py:59-78). job_id is a fresh uuid4.
\* A put_item that raises leaves start_job; lambda_handler answers 500
\* (app.py:53-57).
StartJobPut(body, job_id, putOk) ==
    LET parsed == ParseBody(body)
        question == Get(parsed, "question", "")
        context_data == Get(parsed, "context", EmptyObj)
        frame(pc) == [pc |-> pc, body |-> body,
                      question |-> question, context |-> context_data]
    IN  /\ ~Falsy(question)
        /\ job_id \notin DOMAIN sj
        /\ IF putOk
             THEN /\ table' = PutItem(table, NewJobItem(job_id, question, context_data, now))
                  /\ sj' = (job_id :> frame("stored")) @@ sj
                  /\ UNCHANGED <<apiReq, apiResp>>
             ELSE /\ sj' = (job_id :> frame("put_error500")) @@ sj
                  /\ apiReq' = PostQuery(body)
                  /\ apiResp' = cors_response(500, [error |-> StoreError])
                  /\ UNCHANGED table
        /\ UNCHANGED <<queue, now, plEvent, plResp>>

\* start_job up to the put_item when uuid4 returns an id it returned before, to
\* a call that has ended (app.py:67-78): put_item carries no condition.
StartJobPutAgain(body, job_id, putOk) ==
    LET parsed == ParseBody(body)
        question == Get(parsed, "question", "")
        context_data == Get(parsed, "context", EmptyObj)
        frame(pc) == [pc |-> pc, body |-> body,
                      question |-> question, context |-> context_data]
    IN  /\ ~Falsy(question)
        /\ job_id \in DOMAIN sj
        /\ sj[job_id].pc \notin {"stored", "invoke_failed"}
        /\ IF putOk
             THEN /\ table' = PutItem(table, NewJobItem(job_id, question, context_data, now))
                  /\ sj' = [sj EXCEPT ![job_id] = frame("stored")]
                  /\ UNCHANGED <<apiReq, apiResp>>
             ELSE /\ sj' = [sj EXCEPT ![job_id] = frame("put_error500")]
                  /\ apiReq' = PostQuery(body)
                  /\ apiResp' = cors_response(500, [error |-> StoreError])
                  /\ UNCHANGED table
        /\ UNCHANGED <<queue, now, plEvent, plResp>>

\* start_job, the asynchronous invocation (app.py:80-93, 102-107): accepted,
\* the event is queued and 202 returned; rejected, the except branch is next.
StartJobInvoke(job_id, invokeOk) ==
    /\ job_id \in DOMAIN sj
    /\ sj[job_id].pc = "stored"
    /\ IF invokeOk
         THEN /\ queue' = (job_id :> [payload |-> InvokePayload(job_id, sj[job_id].question,
                                                                sj[job_id].context),
                                      left |-> MaxDeliveries]) @@ queue
              /\ sj' = [sj EXCEPT ![job_id].pc = "accepted202"]
              /\ apiReq' = PostQuery(sj[job_id].body)
              /\ apiResp' = cors_response(202, AcceptedBody(job_id))
         ELSE /\ sj' = [sj EXCEPT ![job_id].pc = "invoke_failed"]
              /\ UNCHANGED <<queue, apiReq, apiResp>>
    /\ UNCHANGED <<table, now, plEvent, plResp>>

\* start_job, the except branch (app.py:92-107): the update_item, then 202.
\* An update_item that raises leaves start_job; lambda_handler answers 500.
StartJobMarkFailed(job_id, writeOk) ==
    /\ job_id \in DOMAIN sj
    /\ sj[job_id].pc = "invoke_failed"
    /\ apiReq' = PostQuery(sj[job_id].body)
    /\ IF writeOk
         THEN /\ table' = UpdateItem(table, job_id, DispatchFailedSets(InvokeError))
              /\ sj' = [sj EXCEPT ![job_id].pc = "rejected202"]
              /\ apiResp' = cors_response(202, AcceptedBody(job_id))
         ELSE /\ sj' = [sj EXCEPT ![job_id].pc = "mark_error500"]
              /\ apiResp' = cors_response(500, [error |-> StoreError])
              /\ UNCHANGED table
    /\ UNCHANGED <<queue, now, plEvent, plResp>>

\* ------------------------------------------------- app.py: lambda_handler
\* The paths of the CORS preflight requests.
OptionsPaths == {<<"query">>, <<"other">>}

OptionsRequest(path) == [httpMethod |-> "OPTIONS", path |-> path, body |-> NoBody]

\* lambda_handler on an OPTIONS request (app.py:10-19, 53-57). The table name
\* is read from the environment before the method is looked at: with
\* JOBS_TABLE unset os.environ[...] raises KeyError and the answer is 500.
Options(path, jobsTableSet) ==
    /\ apiReq' = OptionsRequest(path)
    /\ apiResp' = IF jobsTableSet THEN cors_response(200, EmptyObj)
                                  ELSE cors_response(500, [error |-> "'JOBS_TABLE'"])
    /\ UNCHANGED <<table, queue, sj, now, plEvent, plResp>>

\* The requests lambda_handler routes to neither function: GET /status/ (no
\* job_id after the prefix) and a method the /query path does not take.
OtherRequests ==
    { [httpMethod |-> "GET", path |-> <<"status">>, body |-> NoBody],
      [httpMethod |-> "PUT", path |-> <<"query">>, body |-> NoBody] }

\* lambda_handler on these requests (app.py:21-51): 400 when the path starts
\* with /status/ under GET and holds no job_id, 404 otherwise.
Unrouted(req) ==
    /\ apiReq' = req
    /\ apiResp' = IF req.httpMethod = "GET" /\ req.path[1] = "status"
                     THEN cors_response(400, [error |-> "Job ID not found in path",
                                              path |-> "/status/"])
                     ELSE cors_response(404,
                              [error |-> "Not found: " \o req.httpMethod \o " /" \o req.path[1]])
    /\ UNCHANGED <<table, queue, sj, now, plEvent, plResp>>

\* --------------------------------------------------- app.py: check_status
\* The response check_status computes from the table (app.py:109-133).
StatusView_AnyAttribute(tbl, job_id) ==
    IF job_id \notin DOMAIN tbl
      THEN cors_response(404, [error |-> "Job not found", job_id |-> job_id])
      ELSE LET job == tbl[job_id]
               result == [job_id |-> job_id,
                          status |-> job["status"],
                          created_at |-> Get(job, "created_at", ""),
                          question |-> Get(job, "question", "")]
               withResult == IF Has(job, "result")
                               THEN ("result" :> job["result"]) @@ result
                               ELSE result
           IN  cors_response(200,
                   IF Has(job, "error")
                     THEN ("error" :> job["error"]) @@ withResult
                     ELSE withResult)

StatusView_MissingIsProcessing(tbl, job_id) ==
    LET job == IF job_id \in DOMAIN tbl THEN tbl[job_id]
                                        ELSE [job_id |-> job_id, status |-> "processing"]
        result == [job_id |-> job_id,
                   status |-> job["status"],
                   created_at |-> Get(job, "created_at", ""),
                   question |-> Get(job, "question", "")]
    IN  cors_response(200,
            IF job["status"] = "completed"
              THEN ("result" :> Get(job, "result", EmptyObj)) @@ result
              ELSE IF job["status"] = "failed"
                     THEN ("error" :> Get(job, "error", "Unknown error")) @@ result
                     ELSE result)

StatusView(tbl, job_id) ==
    IF job_id \notin DOMAIN tbl
      THEN cors_response(404, [error |-> "Job not found", job_id |-> job_id])
      ELSE LET job == tbl[job_id]
               result == [job_id |-> job_id,
                          status |-> job["status"],
                          created_at |-> Get(job, "created_at", ""),
                          question |-> Get(job, "question", "")]
           IN  cors_response(200,
                   IF job["status"] = "completed"
                     THEN ("result" :> Get(job, "result", EmptyObj)) @@ result
                     ELSE IF job["status"] = "failed"
                            THEN ("error" :> Get(job, "error", "Unknown error")) @@ result
                            ELSE result)

\* check_status (app.py:109-139); a get_item that raises is answered 500.
CheckStatus_DeleteOnRead(job_id, readOk) ==
    /\ apiReq' = GetStatus(job_id)
    /\ apiResp' = IF readOk THEN StatusView(table, job_id)
                            ELSE cors_response(500, [error |-> StoreError])
    /\ table' = IF readOk /\ job_id \in DOMAIN table /\ table[job_id]["status"] /= "processing"
                  THEN DeleteItem(table, job_id)
                  ELSE table
    /\ UNCHANGED <<queue, sj, now, plEvent, plResp>>

CheckStatus(job_id, readOk) ==
    /\ apiReq' = GetStatus(job_id)
    /\ apiResp' = IF readOk THEN StatusView(table, job_id)
                            ELSE cors_response(500, [error |-> StoreError])
    /\ UNCHANGED <<table, queue, sj, now, plEvent, plResp>>

\* ------------------------------------------- processor.py: lambda_handler
\* The attributes the processor sets on success (processor.py:21-33).
\* The 'completed' write storing its answer over the question.
CompletedSets_OverwritesQuestion(question, t) ==
    [status |-> "completed",
     question |-> "Processed: " \o question,
     result |-> [answer |-> "Processed: " \o question],
     updated_at |-> IsoFormat(t)]

CompletedSets_NoStatus(question, t) ==
    [result |-> [answer |-> "Processed: " \o question],
     updated_at |-> IsoFormat(t)]

CompletedSets(question, t) ==
    [status |-> "completed",
     result |-> [answer |-> "Processed: " \o question],
     updated_at |-> IsoFormat(t)]

\* A failure write that records the error and leaves the status.
FailedSets_NoStatus(err) == [error |-> err]

\* The attributes the processor sets on failure (processor.py:41-52).
FailedSets(err) == [status |-> "failed", error |-> err]

\* One run of the processor for a queued event (processor.py:8-53).
\*   completedOk : the 'completed' update_item succeeds; the handler returns
\*   otherwise the except branch writes 'failed' (failedOk) and re-raises, or
\*   its own update_item raises. A run that raises is retried by the
\*   asynchronous invocation; a run that returns may be delivered again
\*   (at-least-once delivery) while deliveries are left.
ProcessorRun(job_id, completedOk, failedOk, redeliver) ==
    /\ job_id \in DOMAIN queue
    /\ queue[job_id].left > 0
    /\ LET question == queue[job_id].payload.question
       IN  IF completedOk
             THEN /\ table' = UpdateItem(table, job_id, CompletedSets(question, now))
                  /\ queue' = [queue EXCEPT ![job_id].left =
                                  IF redeliver THEN @ - 1 ELSE 0]
             ELSE /\ IF failedOk
                       THEN /\ table' = UpdateItem(table, job_id, FailedSets(StoreError))
                       ELSE /\ UNCHANGED table
                  /\ queue' = [queue EXCEPT ![job_id].left = @ - 1]
    /\ UNCHANGED <<sj, apiReq, apiResp, now, plEvent, plResp>>

\* ------------------------------------------------------------ environment
\* Time passes. A call of the API function lasts far less than a clock step,
\* so none is under way across one.
Tick ==
    /\ now + TickHours <= MaxTime
    /\ \A j \in DOMAIN sj : sj[j].pc \notin {"stored", "invoke_failed"}
    /\ now' = now + TickHours
    /\ UNCHANGED <<table, queue, sj, apiReq, apiResp, plEvent, plResp>>

\* The store removes an expired item (the table's TTL attribute is ttl).
ExpireItem(job_id) ==
    /\ job_id \in DOMAIN table
    /\ Expired(table[job_id], now)
    /\ table' = DeleteItem(table, job_id)
    /\ UNCHANGED <<queue, sj, apiReq, apiResp, now, plEvent, plResp>>

\* ------------------------------------------------------------------- Next
Next ==
    \/ \E body \in Bodies : StartJobReject(body)
    \/ \E body \in MalformedBodies : StartJobMalformed(body)
    \/ \E body \in Bodies, j \in JobIds, ok \in BOOLEAN : StartJobPut(body, j, ok)
    \/ \E j \in JobIds, ok \in BOOLEAN : StartJobInvoke(j, ok)
    \/ \E j \in JobIds, ok \in BOOLEAN : StartJobMarkFailed(j, ok)
    \/ \E path \in OptionsPaths, set \in BOOLEAN : Options(path, set)
    \/ \E req \in OtherRequests : Unrouted(req)
    \/ \E j \in JobIds, ok \in BOOLEAN : CheckStatus(j, ok)
    \/ \E j \in JobIds, ok1 \in BOOLEAN, ok2 \in BOOLEAN, re \in BOOLEAN :
           ProcessorRun(j, ok1, ok2, re)
    \/ Tick
    \/ \E j \in JobIds : ExpireItem(j)

Spec == Init /\ [][Next]_vars

\* The system when uuid4 may return a job_id a second time.
\* Expiry, the requests that touch no job and the failures of the trigger, of
\* the read and of the processor are left out.
CollideNext ==
    \/ \E body \in Bodies, j \in JobIds, ok \in BOOLEAN : StartJobPut(body, j, ok)
    \/ \E body \in Bodies, j \in JobIds, ok \in BOOLEAN : StartJobPutAgain(body, j, ok)
    \/ \E j \in JobIds : StartJobInvoke(j, TRUE)
    \/ \E j \in JobIds : CheckStatus(j, TRUE)
    \/ \E j \in JobIds, re \in BOOLEAN : ProcessorRun(j, TRUE, TRUE, re)

CollideSpec == Init /\ [][CollideNext]_vars

\* The system while the store is available and the trigger is accepted, within
\* the lifetime of the items: no call of the store or of the trigger raises.
\* start_job runs on, the asynchronous invocation delivers its event, and the
\* client keeps polling.
LiveNext ==
    \/ \E body \in Bodies : StartJobReject(body)
    \/ \E body \in Bodies, j \in JobIds : StartJobPut(body, j, TRUE)
    \/ \E j \in JobIds : StartJobInvoke(j, TRUE)
    \/ \E j \in JobIds : CheckStatus(j, TRUE)
    \/ \E j \in JobIds, re \in BOOLEAN : ProcessorRun(j, TRUE, TRUE, re)

LiveSpec ==
    /\ Init
    /\ [][LiveNext]_vars
    /\ \A j \in JobIds : WF_vars(StartJobInvoke(j, TRUE))
    /\ \A j \in JobIds : WF_vars(\E re \in BOOLEAN : ProcessorRun(j, TRUE, TRUE, re))
    /\ \A j \in JobIds : WF_vars(CheckStatus(j, TRUE))

\* ===================================================================
\* The planner functions
\* ===================================================================
\* The closed set of categories the prompts ask for (handler-v3.py:98-103).
Categories ==
    {"factual_direct", "inferential", "procedural", "diagnostic",
     "strategic_planning", "predictive"}

Fragment(question, category) == [question |-> question, category |-> category]

\* JSON objects the reasoning service may answer with: what the prompts ask
\* for, the same with a category outside the set, and objects that lack the
\* keys the functions read.
ServiceObjects ==
    { EmptyObj,
      "questions" :> <<>>,
      "questions" :> <<Fragment("q1", "inferential")>>,
      "questions" :> <<Fragment("q1", "factual_direct"), Fragment("q2", "predictive")>>,
      "questions" :> <<Fragment("q1", "greeting")>>,
      "question_type" :> "inferential",
      ("question_type" :> "procedural") @@ ("confidence" :> "0.9"),
      ("question_type" :> "greeting") @@ ("confidence" :> "0.9"),
      ("confidence" :> "0.9") @@ ("reasoning" :> "r"),
      ("execution_steps" :> <<"gather_context">>) @@ ("expected_duration" :> "30") }

\* How the JSON stands in the text: alone, in a ```json fence, or inside prose.
Wraps == {"bare", "fenced", "prose"}

\* The texts of the reasoning service: prose with no JSON in it, a brace pair
\* that is no JSON ("{oops}"), a JSON list ("[1, 2]"), a JSON object.
ServiceTexts ==
    {[kind |-> "none", wrap |-> "prose", obj |-> EmptyObj]}
    \cup {[kind |-> k, wrap |-> w, obj |-> EmptyObj] : k \in {"invalid", "array"}, w \in Wraps}
    \cup {[kind |-> "object", wrap |-> w, obj |-> o] : w \in Wraps, o \in ServiceObjects}

\* The call of the reasoning service raises, on every attempt.
ServiceError == [kind |-> "error", wrap |-> "bare", obj |-> EmptyObj]

ServiceOutcomes == ServiceTexts \cup {ServiceError}

\* An event that is no JSON object but the list ["q1"]: it has no .get. It is
\* written as the list under a tag that no object carries as a key.
NonObjectEvent == "<list>" :> <<"q1">>

IsObject(event) == ~Has(event, "<list>")

\* The handler leaves by exception and gives no response: the except branch
\* itself raised. The fields of the response shapes say so.
Raised(err) == [raised |-> err, status |-> "raised", statusCode |-> 0, success |-> FALSE]

\* The events the planner functions are invoked with that are JSON objects.
PlannerEvents ==
    { "conversation_id" :> "c1",
      ("question" :> "") @@ ("conversation_id" :> "c1"),
      ("question" :> " ") @@ ("conversation_id" :> "c1"),
      ("question" :> "q1") @@ ("conversation_id" :> "c1"),
      "question" :> "q1 q2" }

\* The service outcomes tried for the second call (the execution plan).
PlanOutcomes ==
    { ServiceError,
      [kind |-> "none", wrap |-> "prose", obj |-> EmptyObj],
      [kind |-> "array", wrap |-> "bare", obj |-> EmptyObj],
      [kind |-> "object", wrap |-> "bare", obj |-> EmptyObj],
      [kind |-> "object", wrap |-> "bare",
       obj |-> ("execution_steps" :> <<"gather_context">>) @@ ("expected_duration" :> "30")] }

\* str.strip() on the questions of PlannerEvents
Strip(question) == IF question = " " THEN "" ELSE question

\* ---------------------------------------- handler-v3.py: classify_question
\* The cleaning and json.loads of handler-v3.py:158-164: the text is stripped,
\* a leading ```json or ``` fence and the last three characters are cut, and
\* the whole of what is left is parsed. Prose around the JSON is not removed.
JsonLoads_v3(text) ==
    IF text.wrap = "prose" \/ text.kind \in {"none", "invalid"}
        THEN "JSONDecodeError"
        ELSE text.kind

\* The fallback of handler-v3.py:178-186 and 191-198.
Fallback_v3(question, error) ==
    [success |-> FALSE,
     questions |-> <<Fragment(question, "factual_direct")>>,
     error |-> error]

\* classify_question (handler-v3.py:133-198); the timestamp is left out.
\*   crew.kickoff() raises            -> outer except, fallback
\*   json.loads raises                -> inner except, fallback
\*   the JSON is no object            -> .get raises AttributeError, outer except
\*   the JSON is an object            -> its 'questions', [] when it has none
classify_question_v3(question, outcome) ==
    IF outcome.kind = "error" THEN Fallback_v3(question, "Classification failed")
    ELSE IF JsonLoads_v3(outcome) = "JSONDecodeError"
        THEN Fallback_v3(question, "JSON parsing failed")
    ELSE IF JsonLoads_v3(outcome) = "array"
        THEN Fallback_v3(question, "Classification failed")
    ELSE [success |-> TRUE, questions |-> Get(outcome.obj, "questions", <<>>)]

\* lambda_handler (handler-v3.py:201-264); a missing conversation_id is a
\* fresh uuid4, the timestamp is left out.
\* On an event that is no object event.get raises AttributeError, and so does
\* the event.get of the except branch (handler-v3.py:252-258).
lambda_handler_v3(event, outcome) ==
    LET question == Get(event, "question", "")
        conversation_id == Get(event, "conversation_id", "uuid4")
    IN  IF ~IsObject(event) THEN Raised("AttributeError")
        ELSE IF Falsy(question)
            THEN [statusCode |-> 400, error |-> "No question provided",
                  conversation_id |-> conversation_id, question |-> "",
                  classification |-> EmptyObj, success |-> FALSE]
            ELSE LET result == classify_question_v3(question, outcome)
                 IN  [statusCode |-> 200, conversation_id |-> conversation_id,
                      question |-> question, classification |-> result,
                      success |-> result.success]

\* One invocation of the v3 planner function.
PlannerV3(outcome) ==
    /\ plResp' = [handler |-> "v3", outcomes |-> <<outcome>>,
                  response |-> lambda_handler_v3(plEvent, outcome)]
    /\ UNCHANGED <<table, queue, sj, apiReq, apiResp, now, plEvent>>

\* ---------------------------------------- handler-v1.py: classify_question
\* re.search(r'\{.*\}', text, re.DOTALL) and json.loads of the match
\* (handler-v1.py:118-121, 212-215): from the first brace to the last one.
Extract_v1(text) ==
    IF text.kind \in {"none", "array"} THEN "nomatch"
    ELSE IF text.kind = "invalid" THEN "JSONDecodeError"
    ELSE "object"

\* The fallback classifications of handler-v1.py:124-132 and 136-145.
FallbackClassification_v1(confidence, reasoning) ==
    ("question_type" :> "factual_direct") @@ ("confidence" :> confidence)
        @@ ("reasoning" :> reasoning)

\* classify_question (handler-v1.py:43-145): the parsed object as it is, the
\* 0.5 fallback when the text has no braces, the 0.3 fallback when the service
\* or json.loads raises.
classify_question_v1(outcome) ==
    IF outcome.kind = "error" \/ Extract_v1(outcome) = "JSONDecodeError"
        THEN FallbackClassification_v1("0.3", "Classification error")
    ELSE IF Extract_v1(outcome) = "nomatch"
        THEN FallbackClassification_v1("0.5", "Failed to parse classification")
    ELSE outcome.obj

\* _create_fallback_plan (handler-v1.py:224-261)
FallbackPlan_v1(question_type) ==
    ("execution_steps" :> <<"gather_context", "process_question", "format_response">>)
        @@ ("process_question" :> question_type) @@ ("expected_duration" :> "30")

\* create_execution_plan (handler-v1.py:147-222) on a classification that has
\* a question_type: the parsed object, else the fallback plan.
create_execution_plan_v1(classification, outcome) ==
    IF outcome.kind # "error" /\ Extract_v1(outcome) = "object"
        THEN outcome.obj
        ELSE FallbackPlan_v1(classification["question_type"])

\* lambda_handler (handler-v1.py:263-310). classification['question_type'] is
\* read at handler-v1.py:218, 222 or 293: on a classification without that
\* key it raises KeyError, caught at handler-v1.py:304-310. On an event that
\* is no object event.get raises AttributeError, and so does the event.get of
\* the except branch (handler-v1.py:308).
lambda_handler_v1(event, classifyOutcome, planOutcome) ==
    LET question == Get(event, "question", "")
        classification == classify_question_v1(classifyOutcome)
    IN  IF ~IsObject(event) THEN Raised("AttributeError")
        ELSE IF Falsy(question)
            THEN [error |-> "Question is required",
                  conversation_id |-> Get(event, "conversation_id", "uuid4"),
                  status |-> "failed"]
        ELSE IF ~Has(classification, "question_type")
            THEN [error |-> "Planning failed: 'question_type'",
                  conversation_id |-> Get(event, "conversation_id", "unknown"),
                  status |-> "planning_failed"]
        ELSE [conversation_id |-> Get(event, "conversation_id", "uuid4"),
              question |-> question,
              question_type |-> classification["question_type"],
              classification |-> classification,
              execution_plan |-> create_execution_plan_v1(classification, planOutcome),
              next_agent |-> classification["question_type"],
              status |-> "planning_complete"]

\* One invocation of the v1 planner function.
PlannerV1(classifyOutcome, planOutcome) ==
    /\ plResp' = [handler |-> "v1", outcomes |-> <<classifyOutcome, planOutcome>>,
                  response |-> lambda_handler_v1(plEvent, classifyOutcome, planOutcome)]
    /\ UNCHANGED <<table, queue, sj, apiReq, apiResp, now, plEvent>>

\* ----------------------------------------- handler-v2.py: process_question
\* _extract_json_from_output (handler-v2.py:391-420): "list" when the whole
\* output parses to a JSON list, else "dict" with the object found, {} when
\* none is.
\*   strategy 1: the object of a ```json fence
\*   strategy 2: the first brace group that parses to a dict of 2 keys or more
\*   strategy 3: the whole output, stripped
Extract_v2(text) ==
    LET dict(obj) == [kind |-> "dict", obj |-> obj]
    IN  IF text.kind \in {"none", "invalid"} THEN dict(EmptyObj)
        ELSE IF text.kind = "array"
            THEN IF text.wrap = "bare" THEN [kind |-> "list", obj |-> EmptyObj]
                                       ELSE dict(EmptyObj)
        ELSE IF text.wrap = "prose" /\ Cardinality(DOMAIN text.obj) <= 1
            THEN dict(EmptyObj)
        ELSE dict(text.obj)

\* _create_fallback_classification (handler-v2.py:422-434)
FallbackClassification_v2 ==
    ("question_type" :> "factual_direct") @@ ("confidence" :> "0.3")

\* _create_fallback_plan (handler-v2.py:436-481)
FallbackPlan_v2(question_type) ==
    ("execution_steps" :> <<"gather_context", "apply_business_rules", "format_response">>)
        @@ ("apply_business_rules" :> question_type) @@ ("expected_duration" :> "45")

\* not obj.get(key): the key is missing or its value is the empty one
Missing(obj, key, empty) == ~Has(obj, key) \/ obj[key] = empty

\* process_question (handler-v2.py:237-389). crew.kickoff() runs both tasks;
\* when it raises, or when .get is called on an extracted list, the except
\* of handler-v2.py:378-389 answers with the fallbacks and error_details.
process_question_v2(classifyOutcome, planOutcome) ==
    LET c == Extract_v2(classifyOutcome)
        e == Extract_v2(planOutcome)
        classification == IF Missing(c.obj, "question_type", "")
                             THEN FallbackClassification_v2 ELSE c.obj
    IN  IF \/ classifyOutcome.kind = "error" \/ planOutcome.kind = "error"
           \/ c.kind = "list" \/ e.kind = "list"
            THEN [classification |-> FallbackClassification_v2,
                  execution_plan |-> FallbackPlan_v2("factual_direct"),
                  tasks_completed |-> 0, error_details |-> "error"]
            ELSE [classification |-> classification,
                  execution_plan |->
                      IF Missing(e.obj, "execution_steps", <<>>)
                          THEN FallbackPlan_v2(classification["question_type"])
                          ELSE e.obj,
                  tasks_completed |-> 2, error_details |-> ""]

\* lambda_handler (handler-v2.py:483-548). On an event that is no object
\* event.get raises AttributeError, and so does the event.get of the except
\* branch (handler-v2.py:540).
lambda_handler_v2(event, classifyOutcome, planOutcome) ==
    LET question == Strip(Get(event, "question", ""))
    IN  IF ~IsObject(event) THEN Raised("AttributeError")
        ELSE IF Falsy(question)
            THEN [error |-> "Question is required",
                  conversation_id |-> Get(event, "conversation_id", "uuid4"),
                  status |-> "failed", framework |-> "crewai_bedrock"]
            ELSE LET crew_result == process_question_v2(classifyOutcome, planOutcome)
                     question_type ==
                         Get(crew_result.classification, "question_type", "factual_direct")
                 IN  [conversation_id |-> Get(event, "conversation_id", "uuid4"),
                      question |-> question,
                      question_type |-> question_type,
                      classification |-> crew_result.classification,
                      execution_plan |-> crew_result.execution_plan,
                      next_agent |-> question_type,
                      status |-> "planning_complete",
                      framework |-> "crewai_bedrock",
                      confidence |-> Get(crew_result.classification, "confidence", "0.5")]

\* One invocation of the v2 planner function.
PlannerV2(classifyOutcome, planOutcome) ==
    /\ plResp' = [handler |-> "v2", outcomes |-> <<classifyOutcome, planOutcome>>,
                  response |-> lambda_handler_v2(plEvent, classifyOutcome, planOutcome)]
    /\ UNCHANGED <<table, queue, sj, apiReq, apiResp, now, plEvent>>

\* ------------------------------------------ handler.py: the stage handlers
\* The step names of the stage handlers (handler.py:69, 104, 140, 172, 204).
StageSteps ==
    {"task_planning", "metadata_retrieval", "query_execution", "reporting",
     "complete_analysis"}

\* event.get('step') on an event without the key: None
NoStep == "<None>"

\* The events of the stage functions: one per step, one with a step that is
\* none of them, one for a report in a named format. The events of the
\* planner functions serve as events without a step.
StageEvents ==
    {("step" :> st) @@ ("question" :> "q1") : st \in StageSteps \cup {"other"}}
    \cup {("step" :> "reporting") @@ ("question" :> "q1")
              @@ ("query_results" :> "rows") @@ ("format" :> "executive")}

\* What MovingFinancialCrew and its tasks give: a result, or an exception.
CrewResult == "crew result"
CrewError == "CrewError"
CrewOutcome(crewOk) ==
    [kind |-> IF crewOk THEN "ok" ELSE "error", wrap |-> "bare", obj |-> EmptyObj]

\* An error response that names no step.
create_step_function_error_NoStep(step, error_message, event) ==
    [statusCode |-> 500,
     body |-> [error |-> error_message, step |-> "unknown",
               input_event |-> event, success |-> FALSE]]

\* create_step_function_error (handler.py:270-281); the timestamp is left out.
create_step_function_error(step, error_message, event) ==
    [statusCode |-> 500,
     body |-> [error |-> error_message, step |-> step,
               input_event |-> event, success |-> FALSE]]

\* The outcome of the try block of a stage handler that calls the crew: on an
\* event that is no object event.get raises AttributeError, then the crew may
\* raise; both are caught by the handler's except.
StageFault(event, crewOk) ==
    IF ~IsObject(event) THEN "AttributeError"
    ELSE IF ~crewOk THEN CrewError
    ELSE ""

\* task_planner_handler (handler.py:44-77)
task_planner_handler(event, crewOk) ==
    IF StageFault(event, crewOk) # ""
        THEN create_step_function_error("task_planning", StageFault(event, crewOk), event)
        ELSE [statusCode |-> 200,
              body |-> [execution_plan |-> CrewResult,
                        question |-> Get(event, "question", ""),
                        context |-> Get(event, "context", EmptyObj),
                        step |-> "task_planning", success |-> TRUE]]

\* metadata_handler (handler.py:79-112)
metadata_handler(event, crewOk) ==
    IF StageFault(event, crewOk) # ""
        THEN create_step_function_error("metadata_retrieval", StageFault(event, crewOk), event)
        ELSE [statusCode |-> 200,
              body |-> [metadata_analysis |-> CrewResult, schemas_retrieved |-> TRUE,
                        question |-> Get(event, "question", ""),
                        step |-> "metadata_retrieval", success |-> TRUE]]

\* query_execution_handler (handler.py:114-149)
query_execution_handler(event, crewOk) ==
    IF StageFault(event, crewOk) # ""
        THEN create_step_function_error("query_execution", StageFault(event, crewOk), event)
        ELSE [statusCode |-> 200,
              body |-> [query_results |-> CrewResult, data_retrieved |-> TRUE,
                        question |-> Get(event, "question", ""),
                        step |-> "query_execution", success |-> TRUE]]

\* financial_analysis_handler (handler.py:151-180)
financial_analysis_handler(event, crewOk) ==
    IF StageFault(event, crewOk) # ""
        THEN create_step_function_error("complete_analysis", StageFault(event, crewOk), event)
        ELSE [statusCode |-> 200,
              body |-> [analysis_result |-> CrewResult,
                        question |-> Get(event, "question", ""),
                        context |-> Get(event, "context", EmptyObj),
                        step |-> "complete_analysis", success |-> TRUE]]

\* format_financial_report (handler.py:283-326): the layout named by the
\* format, the summary for any other, around the question and the results.
format_financial_report(query_results, question, format_type) ==
    [layout |-> IF format_type \in {"executive", "detailed"} THEN format_type
                                                             ELSE "summary",
     question |-> question, results |-> query_results]

\* reporting_handler (handler.py:182-213): it calls no crew.
reporting_handler(event, crewOk) ==
    IF ~IsObject(event)
        THEN create_step_function_error("reporting", "AttributeError", event)
        ELSE LET report_format == Get(event, "format", "summary")
             IN  [statusCode |-> 200,
                  body |-> [final_report |->
                                format_financial_report(Get(event, "query_results", ""),
                                                        Get(event, "question", ""),
                                                        report_format),
                            report_format |-> report_format,
                            question |-> Get(event, "question", ""),
                            step |-> "reporting", success |-> TRUE]]

\* The stage functions by name, each with the step it signs its responses with.
StageHandlers ==
    [task_planner_handler |-> "task_planning",
     metadata_handler |-> "metadata_retrieval",
     query_execution_handler |-> "query_execution",
     reporting_handler |-> "reporting",
     financial_analysis_handler |-> "complete_analysis"]

\* The stage function that signs with a step.
StageCall(step, event, crewOk) ==
    CASE step = "task_planning" -> task_planner_handler(event, crewOk)
      [] step = "metadata_retrieval" -> metadata_handler(event, crewOk)
      [] step = "query_execution" -> query_execution_handler(event, crewOk)
      [] step = "reporting" -> reporting_handler(event, crewOk)
      [] OTHER -> financial_analysis_handler(event, crewOk)

\* A router that plans when it does not know the step.
lambda_handler_stages_DefaultPlanning(event, crewOk) ==
    IF ~IsObject(event)
        THEN [statusCode |-> 500, body |-> [error |-> "AttributeError"]]
        ELSE IF Get(event, "step", NoStep) \in StageSteps
            THEN StageCall(event["step"], event, crewOk)
            ELSE task_planner_handler(event, crewOk)

\* lambda_handler (handler.py:216-268), the router: the handler named by
\* event.get('step'), the complete analysis for any other step or none. On an
\* event that is no object event.get raises and the router's own except
\* answers 500 with the error in a JSON body; no stage handler runs.
lambda_handler_stages(event, crewOk) ==
    IF ~IsObject(event)
        THEN [statusCode |-> 500, body |-> [error |-> "AttributeError"]]
        ELSE StageCall(Get(event, "step", NoStep), event, crewOk)

\* One invocation of a stage function by Step Functions.
StageHandler(name, crewOk) ==
    /\ plResp' = [handler |-> name, outcomes |-> <<CrewOutcome(crewOk)>>,
                  response |-> StageCall(StageHandlers[name], plEvent, crewOk)]
    /\ UNCHANGED <<table, queue, sj, apiReq, apiResp, now, plEvent>>

\* One invocation of the router.
StageRouter(crewOk) ==
    /\ plResp' = [handler |-> "lambda_handler", outcomes |-> <<CrewOutcome(crewOk)>>,
                  response |-> lambda_handler_stages(plEvent, crewOk)]
    /\ UNCHANGED <<table, queue, sj, apiReq, apiResp, now, plEvent>>

\* ------------------------------------------------------------ PlannerSpec
\* The planner functions on every event and every outcome of the service.
PlannerInit ==
    /\ table = EmptyObj
    /\ queue = EmptyObj
    /\ sj = EmptyObj
    /\ apiReq = NoRequest
    /\ apiResp = NoResponse
    /\ now = 0
    /\ plEvent \in PlannerEvents \cup StageEvents \cup {NonObjectEvent}
    /\ plResp = NoPlannerResp

PlannerNext ==
    \/ \E c \in ServiceOutcomes, e \in PlanOutcomes : PlannerV1(c, e)
    \/ \E c \in ServiceOutcomes, e \in PlanOutcomes : PlannerV2(c, e)
    \/ \E c \in ServiceOutcomes : PlannerV3(c)
    \/ \E name \in DOMAIN StageHandlers, ok \in BOOLEAN : StageHandler(name, ok)
    \/ \E ok \in BOOLEAN : StageRouter(ok)

PlannerSpec == PlannerInit /\ [][PlannerNext]_vars

\* ===================================================================
\* Properties
\* ===================================================================
Terminal(status) == status \in {"completed", "failed"}

\* The processor has not yet taken a step for a job whose trigger was accepted.
NoProcessorStepYet(job_id) ==
    /\ job_id \in DOMAIN queue
    /\ queue[job_id].left = MaxDeliveries

\* The step is one in which the API function answers a request.
ApiAnswers == <<apiReq, apiResp>>' /= <<apiReq, apiResp>>

\* C1: once the stored status of a job is 'completed' or 'failed' it never
\* changes again, whatever start_job calls, processor runs (duplicate or
\* retried) and status reads follow.
C1_TerminalStatusNeverChanges ==
    [][\A j \in DOMAIN table :
          (Terminal(table[j]["status"]) /\ j \in DOMAIN table')
              => table'[j]["status"] = table[j]["status"]]_vars

\* C2: in every state of the jobs table a 'completed' item has a result and no
\* error, a 'failed' item has an error and no result, and a 'processing' item
\* has neither.
C2_AttributesFollowStatus ==
    \A j \in DOMAIN table :
        LET item == table[j]
        IN  /\ item["status"] = "completed" => Has(item, "result") /\ ~Has(item, "error")
            /\ item["status"] = "failed" => Has(item, "error") /\ ~Has(item, "result")
            /\ item["status"] = "processing" => ~Has(item, "result") /\ ~Has(item, "error")

Returned202(job_id) ==
    job_id \in DOMAIN sj /\ sj[job_id].pc \in {"accepted202", "rejected202"}

\* C4 as stated: after start_job has returned its 202 and before the processor
\* has taken any step for the job, check_status answers 200 with status
\* 'processing'.
C4_ProcessingAfter202 ==
    \A j \in JobIds :
        (Returned202(j) /\ (j \in DOMAIN queue => NoProcessorStepYet(j)))
            => /\ StatusView(table, j).statusCode = 200
               /\ StatusView(table, j).body["status"] = "processing"

\* C4 amended: when the trigger was accepted, after start_job has returned its
\* 202, before the processor has taken any step for the job and while the item
\* has not been removed by expiry, check_status answers 200 with status
\* 'processing' (and neither result nor error).
C4_ProcessingAfterAccepted202 ==
    \A j \in JobIds :
        (/\ j \in DOMAIN sj
         /\ sj[j].pc = "accepted202"
         /\ NoProcessorStepYet(j)
         /\ j \in DOMAIN table)
            => /\ StatusView(table, j).statusCode = 200
               /\ StatusView(table, j).body["status"] = "processing"
               /\ DOMAIN StatusView(table, j).body =
                      {"job_id", "status", "created_at", "question"}

C4_Witness ==
    \E j \in DOMAIN sj :
        /\ sj[j].pc = "accepted202"
        /\ NoProcessorStepYet(j)
        /\ apiReq = GetStatus(j)
        /\ apiResp.statusCode = 200
        /\ apiResp.body["status"] = "processing"
        /\ apiResp = StatusView(table, j)

\* C5: under fairness of the processor, with the store available and the
\* trigger accepted, every job start_job admitted eventually has a terminal
\* status, which then never changes, and the polling client eventually receives
\* 200 with status 'completed' and a result.
C5_Admitted(job_id) == job_id \in DOMAIN sj /\ job_id \in DOMAIN table

C5_PollSeesCompleted(job_id) ==
    /\ apiReq = GetStatus(job_id)
    /\ apiResp.statusCode = 200
    /\ apiResp.body["status"] = "completed"
    /\ Has(apiResp.body, "result")

C5_EventuallyCompleted ==
    /\ \A j \in JobIds :
           C5_Admitted(j) ~> (j \in DOMAIN table /\ Terminal(table[j]["status"]))
    /\ [][\A j \in DOMAIN table :
              Terminal(table[j]["status"])
                  => (j \in DOMAIN table' /\ table'[j]["status"] = table[j]["status"])]_vars
    /\ \A j \in JobIds : C5_Admitted(j) ~> C5_PollSeesCompleted(j)

C5_Witness ==
    \E j \in JobIds :
        /\ C5_PollSeesCompleted(j)
        /\ apiResp.body["result"] = [answer |-> "Processed: q1"]
        /\ queue[j].left = 0

\* C6: for every stored item check_status answers 200 with a body that holds
\* job_id, status, created_at and question, holds result exactly when the
\* stored status is 'completed' and error exactly when it is 'failed'.
C6_StatusViewShape ==
    \A j \in DOMAIN table :
        LET view == StatusView(table, j)
        IN  /\ view.statusCode = 200
            /\ {"job_id", "status", "created_at", "question"} \subseteq DOMAIN view.body
            /\ view.body["job_id"] = j
            /\ view.body["status"] = table[j]["status"]
            /\ Has(view.body, "result") <=> table[j]["status"] = "completed"
            /\ Has(view.body, "error") <=> table[j]["status"] = "failed"

C6_Witness ==
    \E j \in DOMAIN table, k \in DOMAIN table :
        /\ table[j]["status"] = "completed"
        /\ table[k]["status"] = "failed"
        /\ apiReq = GetStatus(j)
        /\ apiResp = StatusView(table, j)
        /\ Has(apiResp.body, "result")

\* C7: check_status is read-only: whatever the job_id and the outcome (200,
\* 404, 500), the step in which it answers leaves the jobs table as it was and
\* queues no processor event.
C7_CheckStatusReadOnly ==
    [][(ApiAnswers /\ apiReq'.httpMethod = "GET")
          => (table' = table /\ queue' = queue /\ sj' = sj)]_vars

C7_Witness ==
    /\ apiReq.httpMethod = "GET"
    /\ apiResp.statusCode = 500
    /\ \E j \in DOMAIN table : Terminal(table[j]["status"])
    /\ \E j \in DOMAIN queue : queue[j].left > 0

\* C8: for every job_id start_job never generated, check_status answers 404
\* with error 'Job not found' and that job_id, in every reachable state.
C8_UnknownJobNotFound ==
    \A j \in JobIds \ DOMAIN sj :
        /\ StatusView(table, j) =
               cors_response(404, [error |-> "Job not found", job_id |-> j])
        /\ (apiReq = GetStatus(j) /\ apiResp.statusCode /= 500)
               => apiResp = cors_response(404, [error |-> "Job not found", job_id |-> j])

C8_Witness ==
    \E j \in JobIds \ DOMAIN sj :
        /\ apiReq = GetStatus(j)
        /\ apiResp.statusCode = 404
        /\ table /= EmptyObj
        /\ \E k \in DOMAIN queue : queue[k].left < MaxDeliveries

\* C9: an item comes into existence only through start_job's put_item: a
\* processor run (or any other step) for a job_id that has no item creates none.
C9_OnlyStartJobCreates ==
    [][\A j \in JobIds :
          (j \notin DOMAIN table /\ j \in DOMAIN table')
              => (j \notin DOMAIN sj /\ j \in DOMAIN sj' /\ sj'[j].pc = "stored")]_vars

\* The question start_job reads from a request (app.py:60-61).
QuestionOf(req) == Get(ParseBody(req.body), "question", "")

\* C10: a POST /query whose question is missing or empty is answered 400 with
\* body {"error": "Question is required"}, and the step that answers it writes
\* nothing to the jobs table and queues no processor event.
C10_EmptyQuestionRejected ==
    /\ [](apiReq.httpMethod = "POST" /\ apiReq.body \in Bodies /\ QuestionOf(apiReq) = ""
            => apiResp = cors_response(400, [error |-> "Question is required"]))
    /\ [][(ApiAnswers /\ apiReq'.httpMethod = "POST" /\ apiReq'.body \in Bodies
               /\ QuestionOf(apiReq') = "")
            => (table' = table /\ queue' = queue /\ sj' = sj)]_vars

C10_Witness ==
    /\ apiReq = PostQuery([kind |-> "object", obj |-> ("question" :> "") @@ ("context" :> ("k" :> "v"))])
    /\ apiResp.statusCode = 400
    /\ table /= EmptyObj

\* ---------------------------------------------------------------- C11..C14

\* C11: a POST /query whose body cannot be read as a JSON object (a null body,
\* text that is no JSON, JSON that is no object) is answered with status 400
\* and an error field, and nothing is stored or triggered.
C11_MalformedBodyIs400 ==
    (apiReq.httpMethod = "POST" /\ apiReq.body \in MalformedBodies)
        => (apiResp.statusCode = 400 /\ Has(apiResp.body, "error"))

\* C12: start_job triggers the processor for a job only after its put_item has
\* succeeded, with the item stored in status "processing"; when the put_item
\* fails the request is answered with 500, nothing is stored and the processor
\* is never triggered for that job.
C12_PutPrecedesTrigger ==
    /\ [](\A j \in DOMAIN sj : sj[j].pc = "put_error500" =>
              (j \notin DOMAIN queue /\ j \notin DOMAIN table))
    /\ [][\A j \in JobIds :
            /\ (j \in DOMAIN queue' /\ j \notin DOMAIN queue) =>
                   /\ j \in DOMAIN sj /\ sj[j].pc = "stored"
                   /\ j \in DOMAIN table /\ table[j]["status"] = "processing"
            /\ (j \notin DOMAIN sj /\ j \in DOMAIN sj' /\ sj'[j].pc = "put_error500") =>
                   /\ apiResp'.statusCode = 500
                   /\ table' = table /\ queue' = queue]_vars

C12_Witness ==
    \E j \in DOMAIN sj, k \in DOMAIN queue :
        /\ sj[j].pc = "put_error500"
        /\ apiResp = cors_response(500, [error |-> StoreError])
        /\ k \in DOMAIN table

\* C13: a start_job whose job_id already has an item in the table does not
\* store its item: the existing item is left unchanged.
C13_CreateOnExistingRejected ==
    [][\A j \in DOMAIN table :
          (j \in DOMAIN sj /\ sj[j].pc # "stored" /\ sj'[j].pc = "stored")
              => table'[j] = table[j]]_vars

\* C14: a job whose ttl has passed is reported as not found (404) by
\* check_status, also while its item is still in the table.
C14_ExpiredIsNotFound ==
    \A j \in DOMAIN table :
        Expired(table[j], now) => StatusView(table, j).statusCode = 404

\* ---------------------------------------------------------------- C19, C20

\* The attributes start_job's put_item writes and no later write names.
ImmutableAttributes == {"job_id", "question", "context", "created_at"}

\* C19: no step changes the job_id, question, context or created_at of an
\* item of the table: on every item that is in the table before and after a
\* step, each of these attributes is present in both or in neither, with the
\* same value.
C19_InputAttributesImmutable ==
    [][\A j \in (DOMAIN table) \cap (DOMAIN table') : \A a \in ImmutableAttributes :
          /\ Has(table'[j], a) <=> Has(table[j], a)
          /\ Has(table[j], a) => table'[j][a] = table[j][a]]_vars

C19_Witness ==
    \E j \in DOMAIN table, k \in DOMAIN table :
        /\ table[j]["status"] = "completed"
        /\ table[k]["status"] = "failed"
        /\ \A i \in {j, k} :
              /\ \A a \in ImmutableAttributes : Has(table[i], a)
              /\ table[i]["question"] = sj[i].question
              /\ table[i]["context"] = sj[i].context
              /\ table[i]["job_id"] = i

\* C20: every OPTIONS request is answered with 200, Access-Control-Allow-Origin
\* "*" and Access-Control-Allow-Methods "GET,POST,OPTIONS", whatever the path,
\* the configuration and the table.
C20_OptionsAlways200 ==
    apiReq.httpMethod = "OPTIONS" =>
        /\ apiResp.statusCode = 200
        /\ apiResp.headers.allowOrigin = "*"
        /\ apiResp.headers.allowMethods = "GET,POST,OPTIONS"

\* ---------------------------------------------------------------- C15..C18

\* C15: when the call of the reasoning service for the classification raises
\* on every attempt, the planner function reports a failure (status "failed"
\* or "planning_failed"; success FALSE for v3), never a finished
\* classification.
C15_OutageReportedAsFailure ==
    (/\ plResp.handler \in {"v1", "v2", "v3"}
     /\ IsObject(plEvent)
     /\ plResp.outcomes[1].kind = "error") =>
        IF plResp.handler = "v3"
            THEN plResp.response.success = FALSE
            ELSE plResp.response.status \in {"failed", "planning_failed"}

\* C16: for every question and every outcome of the reasoning service,
\* classify_question (v3) returns a non-empty list of fragments, and when the
\* service's text yields no fragment the list is the whole question alone,
\* with category "factual_direct".
C16_FragmentsNonEmpty ==
    (plResp.handler = "v3" /\ plResp.response.statusCode = 200) =>
        LET outcome == plResp.outcomes[1]
            questions == plResp.response.classification.questions
            extracted == IF outcome.kind # "error" /\ JsonLoads_v3(outcome) = "object"
                            THEN Get(outcome.obj, "questions", <<>>) ELSE <<>>
        IN  /\ questions # <<>>
            /\ extracted = <<>> =>
                   questions = <<Fragment(plResp.response.question, "factual_direct")>>

\* C17: every category of every classification the planner functions return,
\* whatever the reasoning service answered, is one of Categories.
C17_CategoriesClosed ==
    /\ (plResp.handler = "v3" /\ plResp.response.statusCode = 200) =>
           \A i \in DOMAIN plResp.response.classification.questions :
               plResp.response.classification.questions[i].category \in Categories
    /\ (/\ plResp.handler \in {"v1", "v2"}
        /\ plResp.response.status = "planning_complete") =>
           plResp.response.question_type \in Categories

\* C18: for every text a reachable reasoning service returns, the v1 and v2
\* planner functions invoked with a question answer planning_complete, with a
\* classification that is the parsed object or a fallback of question_type
\* "factual_direct"; they never answer planning_failed.
C18_PlannerNeverAborts ==
    (/\ plResp.handler \in {"v1", "v2"}
     /\ IsObject(plEvent)
     /\ \A i \in DOMAIN plResp.outcomes : plResp.outcomes[i].kind # "error"
     /\ plResp.response.status # "failed") =>
        /\ plResp.response.status = "planning_complete"
        /\ \/ plResp.response.classification = plResp.outcomes[1].obj
           \/ plResp.response.classification["question_type"] = "factual_direct"

\* ---------------------------------------------------------------- C21..C30

\* C21: every response of the API function (202, 200, 400, 404 and the 500 of
\* a caught exception) carries Content-Type application/json and
\* Access-Control-Allow-Origin "*", and every response outside 2xx has an
\* error field in its body.
C21_ResponsesAreJsonWithCors ==
    apiResp # NoResponse =>
        /\ apiResp.headers.contentType = "application/json"
        /\ apiResp.headers.allowOrigin = "*"
        /\ apiResp.statusCode \notin {200, 202} => Has(apiResp.body, "error")

C21_Witness ==
    /\ apiReq.httpMethod = "GET"
    /\ apiResp.statusCode = 500
    /\ apiResp.body["error"] = StoreError
    /\ apiResp.headers.contentType = "application/json"

\* C22: a step of start_job, of the processor or of check_status for one job
\* leaves the item of every other job as it is: present with the same
\* attributes, or absent.
C22_JobsDoNotInterfere ==
    [][\A a \in JobIds :
          (\/ a \in DOMAIN sj' /\ (a \notin DOMAIN sj \/ sj'[a] # sj[a])
           \/ a \in DOMAIN queue' /\ (a \notin DOMAIN queue \/ queue'[a] # queue[a])
           \/ ApiAnswers /\ apiReq' = GetStatus(a))
          => \A b \in JobIds \ {a} :
                 /\ b \in DOMAIN table' <=> b \in DOMAIN table
                 /\ b \in DOMAIN table => table'[b] = table[b]]_vars

C22_Witness ==
    \E a \in DOMAIN table, b \in DOMAIN table :
        /\ a # b
        /\ table[a]["status"] = "completed"
        /\ table[b] = NewJobItem(b, sj[b].question, sj[b].context, 0)
        /\ b \in DOMAIN queue /\ queue[b].left = MaxDeliveries

\* C23: every write on an item of the table is conditional on its status
\* being "processing": a step changes an item only when its stored status is
\* "processing", and a writer that finds another status leaves the item
\* unchanged.
C23_TerminalWritesConditional ==
    [][\A j \in (DOMAIN table) \cap (DOMAIN table') :
          table'[j] # table[j] => table[j]["status"] = "processing"]_vars

C25_StatusChangeSetsUpdatedAt ==
    [][\A j \in (DOMAIN table) \cap (DOMAIN table') :
          table'[j]["status"] # table[j]["status"] =>
              /\ Has(table'[j], "updated_at")
              /\ table'[j]["updated_at"] = IsoFormat(now)]_vars

\* C28: start_job returns its 202 without the processor having taken a step
\* for the job, with status 202 and a body that names the job_id and status
\* "processing" whatever the processor does later; a run of the processor,
\* failed or not, changes no response of the API function.
C28_FireAndForget ==
    [][\A j \in JobIds :
          /\ (j \in DOMAIN sj' /\ Returned202(j)' /\ ~Returned202(j)) =>
                 /\ apiResp'.statusCode = 202
                 /\ apiResp'.body["job_id"] = j
                 /\ apiResp'.body["status"] = "processing"
                 /\ j \in DOMAIN queue' => queue'[j].left = MaxDeliveries
          /\ (j \in DOMAIN queue /\ queue'[j].left < queue[j].left) =>
                 <<apiReq, apiResp>>' = <<apiReq, apiResp>>]_vars

C28_Witness ==
    \E j \in DOMAIN table :
        /\ apiReq.httpMethod = "POST"
        /\ apiResp = cors_response(202, AcceptedBody(j))
        /\ sj[j].pc = "accepted202"
        /\ queue[j].left < MaxDeliveries
        /\ table[j]["status"] = "failed"

\* C29: every item of the table carries the ttl start_job set at its
\* creation, creation time plus 24 hours, and no step changes or removes the
\* ttl of an item.
C29_TtlFixedAtAdmission ==
    /\ [](\A j \in DOMAIN table :
              /\ Has(table[j], "ttl")
              /\ Has(table[j], "created_at")
              /\ \E t \in 0..MaxTime :
                     table[j]["created_at"] = IsoFormat(t) /\ table[j]["ttl"] = t + TtlHours)
    /\ [][\A j \in (DOMAIN table) \cap (DOMAIN table') :
              /\ Has(table'[j], "ttl") <=> Has(table[j], "ttl")
              /\ Has(table[j], "ttl") => table'[j]["ttl"] = table[j]["ttl"]]_vars

\* C30: the v1 and v2 planner functions return a response for every event and
\* never raise: status "failed" with error "Question is required" on an empty
\* or missing question, status "planning_complete" or "planning_failed"
\* otherwise, and the conversation_id of the event in the response.
C30_PlannerTotal ==
    plResp.handler \in {"v1", "v2"} =>
        /\ plResp.response.status \in {"failed", "planning_complete", "planning_failed"}
        /\ Get(plEvent, "question", "") = "" =>
               /\ plResp.response.status = "failed"
               /\ plResp.response.error = "Question is required"
        /\ Has(plEvent, "conversation_id") =>
               plResp.response.conversation_id = plEvent["conversation_id"]

\* C26: each stage handler returns for every event, an object or not, and
\* whether the crew raises or not: statusCode 200 with success TRUE and its
\* own step, or statusCode 500 with success FALSE, the error text, its own
\* step and the event it was given.
C26_StageHandlersTotal ==
    plResp.handler \in DOMAIN StageHandlers =>
        LET response == plResp.response
            step == StageHandlers[plResp.handler]
        IN  \/ /\ response.statusCode = 200
               /\ response.body.success = TRUE
               /\ response.body.step = step
               /\ IsObject(plEvent)
               /\ \/ plResp.outcomes[1].kind = "ok"
                  \/ plResp.handler = "reporting_handler"
            \/ /\ response.statusCode = 500
               /\ response.body.success = FALSE
               /\ response.body.step = step
               /\ response.body.error \in {"AttributeError", CrewError}
               /\ response.body.input_event = plEvent

C26_Witness ==
    /\ plResp.handler = "metadata_handler"
    /\ plEvent = NonObjectEvent
    /\ plResp.response.statusCode = 500
    /\ plResp.response.body.step = "metadata_retrieval"
    /\ plResp.response.body.input_event = NonObjectEvent

====
